---- MODULE Spec2Model ----
(***************************************************************************)
(* Verification model of the stock-ai-advisor back end:                    *)
(*   - the scheduled S&P 500 price refresh job (batch-update-sp500),       *)
(*   - the daily analysis orchestrator (scan + SendMessageBatch fan-out),  *)
(*   - the user analysis queue with its dead-letter queue, and             *)
(*   - the daily analysis worker (SQS consumer),                           *)
(*   - the interactive quote route with its in-memory cache,               *)
(*   - the LLM analysts with their rule-based fallbacks,                   *)
(*   - the get-then-write upsert of MarketData records,                    *)
(*   - the timing of a queue message against the function timeout,         *)
(*   - the quote records the fetchStockPrice variants build,               *)
(*   - the top gainer and loser of a history record,                       *)
(*   - the market status of the summary record,                            *)
(*   - one run of the refresh job against its function timeout.            *)
(* Time is counted in ticks of 100 ms, in the quote route in milliseconds. *)
(***************************************************************************)
EXTENDS Integers, Sequences, FiniteSets, TLC

(***************************************************************************)
(* Program constants                                                       *)
(***************************************************************************)
FetchBatchSize == 10      \* batchUpdatePrices: const batchSize = 10
DelayTicks == 11          \* setTimeout(resolve, 1100) after every fetch
SampleSize == 30          \* handler: symbols.slice(0, 30)
RateLimit == 60           \* Finnhub: 60 calls/minute
SendBatchSize == 10       \* orchestrator: createBatches(usersToProcess, 10)
MaxReceiveCountFour == 3 + 1  \* a redrive policy that allows one more delivery
MaxReceiveCount == 3      \* deadLetterQueue: maxReceiveCount: 3
BatchSizeTwo == 1 + 1     \* an event source that hands two records at once
BatchSize == 1            \* SqsEventSource: batchSize: 1
WindowTicks == 600        \* one minute, in ticks of 100 ms
JobTimeoutSeconds == 300  \* batchUpdateSP500: timeoutSeconds: 300
CACHE_TTL == 60 * 1000    \* quote route: const CACHE_TTL = 60 * 1000
PostLimit == 10           \* quote route: symbols.slice(0, 10)
PostDelay == 100          \* quote route: setTimeout(resolve, 100)
VisibilityTimeout == 360  \* userAnalysisQueue: Duration.seconds(360)
WorkerTimeout == 300      \* dailyAnalysisWorker: timeoutSeconds: 300
ReservedConcurrency == 50 \* dailyAnalysisWorker: reservedConcurrentExecutions

(***************************************************************************)
(* Bounds of the model                                                     *)
(***************************************************************************)
MaxSymbols == 2           \* universe sizes explored with a flaky upstream
MaxRateSymbols == 32      \* universe sizes explored with a healthy upstream
MaxLatency == 1           \* ticks one upstream request may take

MaxPrefs == 2             \* UserPreference tables explored with any content
MaxManyPrefs == 11        \* tables explored with eligible users only
MaxPage == 2              \* items one Scan page may cover
MaxTasks == 2             \* tasks in the user analysis queue
MaxWorkers == 2           \* worker invocations running at the same time

MaxRequests == 2          \* requests the quote route receives
MaxWriters == 2           \* get-then-write sequences running at a time
MaxClock == 780           \* seconds the timing of a message is followed
MaxTicks == 3             \* times the clock of the quote route advances

ChangeVals == {-2, 0, 1}  \* percent changes a quote (or a mock) may carry
MockVolumes == {0, 1}     \* Math.floor(Math.random() * 10000000): 0 or not

VARIABLES
    \* ---- environment of the refresh job
    symbols,      \* SP500.map(stock => stock.symbol), a list of symbol ids
    net,          \* "up": every request answers a quote; "flaky": any answer
    market,       \* symbol -> percent change the upstream reports (dp)
    latency,      \* ticks one upstream request takes in this run
    \* ---- refresh job (batch-update-sp500 handler)
    jpc,          \* position of the handler
    idx,          \* index of the symbol the fetch loop is at
    prices,       \* batchUpdatePrices: const prices = [] of the current batch
    store,        \* MarketData table: set of records keyed by symbol
    allPrices,    \* handler: results of the 30-symbol sample
    sidx,         \* next sample request to resolve
    summary,      \* SP500_SUMMARY record: empty or one record
    clock,        \* elapsed ticks since the handler started
    callTimes,    \* start time of every upstream quote request of the run
    inflight,     \* upstream quote requests started and not yet answered
    outcome       \* per symbol, what the upstream answered in the fetch loop

VARIABLES
    \* ---- daily analysis orchestrator
    prefs,        \* UserPreferences table, in scan order
    opc,          \* position of the orchestrator handler
    lastEvaluatedKey, \* getUsersForDailyAnalysis: 0 stands for undefined
    users,        \* getUsersForDailyAnalysis: const users = []
    batches,      \* handler: createBatches(usersToProcess, 10)
    bidx,         \* index of the batch the send loop is at
    totalQueued,  \* handler: let totalQueued = 0
    queue,        \* messages the user analysis queue accepted, in order
    rejected      \* ids of the preferences whose entry the queue rejected

VARIABLES
    \* ---- user analysis queue and daily analysis worker
    impl,         \* the worker handler deployed: "ses" or "amplify"
    msgs,         \* message id -> body of the task
    mstate,       \* message id -> "visible", "inflight", "deleted", "dlq"
    receiveCount, \* message id -> ApproximateReceiveCount
    timedOut,     \* message id -> a delivery of it ended in a function timeout
    llmCalls,     \* message id -> chat completions requested
    history,      \* message id -> AnalysisHistory records written
    emails,       \* message id -> emails SES accepted
    inv           \* worker slot -> the invocation running in it

jobVars == <<symbols, net, market, latency, jpc, idx, prices, store,
             allPrices, sidx, summary, clock, callTimes, inflight, outcome>>

orchVars == <<prefs, opc, lastEvaluatedKey, users, batches, bidx,
              totalQueued, queue, rejected>>

workVars == <<impl, msgs, mstate, receiveCount, timedOut, llmCalls, history,
              emails, inv>>

VARIABLES
    \* ---- quote route (app/api/finnhub/quote)
    cache,        \* const cache = new Map(): symbol -> {data, timestamp}
    now,          \* Date.now(), in milliseconds
    ticks,        \* how often the clock has advanced
    reqs          \* request slot -> the request handled in it

VARIABLES
    \* ---- recommendations
    recIn,        \* the analyst called, its percent change, profile, LLM
    recOut        \* the analysis it returned

VARIABLES
    \* ---- upsert of MarketData records
    mdTable,      \* symbols the MarketData table holds a record of
    writers       \* writer -> the get-then-write it runs

VARIABLES
    \* ---- timing of one queue message
    vclock,       \* seconds since the message was sent
    vmsg,         \* the message: state, time of the last receive, receives
    deliveries,   \* the deliveries of the message and their invocations
    busy          \* invocations of the worker running for other tasks

VARIABLES
    \* ---- quote records of the refresh job
    priceIn,      \* what one fetchStockPrice call meets
    priceOut,     \* the record it returned
    variant       \* the fetchStockPrice variant that ran

VARIABLES
    \* ---- top gainer and top loser of a history record
    topIn,        \* the resolved quotes, in the order the store returned them
    topOut        \* the top gainer and loser the worker recorded

VARIABLES
    \* ---- market status
    statusIn,     \* day, hours and minutes of the Eastern time
    statusOut     \* what getMarketStatus returned

quoteVars == <<cache, now, ticks, reqs>>

statusVars == <<statusIn, statusOut>>

topVars == <<topIn, topOut>>

priceVars == <<priceIn, priceOut, variant>>

visVars == <<vclock, vmsg, deliveries, busy>>

upsVars == <<mdTable, writers>>

recVars == <<recIn, recOut>>

\* The components other than the job, the orchestrator and the worker.
extVars == <<quoteVars, recVars, upsVars, visVars, priceVars,
            topVars,
            statusVars>>

\* Everything but the quote route.
notQuote == <<jobVars, orchVars, workVars, recVars, upsVars, visVars,
             priceVars, topVars, statusVars>>

\* Everything but the recommendations.
notRec == <<jobVars, orchVars, workVars, quoteVars, upsVars, visVars,
             priceVars, topVars, statusVars>>

\* Everything but the upsert.
notUps == <<jobVars, orchVars, workVars, quoteVars, recVars, visVars,
             priceVars, topVars, statusVars>>

\* Everything but the quote records.
notPrice == <<jobVars, orchVars, workVars, quoteVars, recVars, upsVars,
              visVars, topVars, statusVars>>

\* Everything but the timing of a message.
notVis == <<jobVars, orchVars, workVars, quoteVars, recVars, upsVars,
             priceVars, topVars, statusVars>>

\* Everything but the top gainer and loser.
notTop == <<jobVars, orchVars, workVars, quoteVars, recVars, upsVars,
            visVars, priceVars, statusVars>>

\* Everything but the market status.
notStatus == <<jobVars, orchVars, workVars, quoteVars, recVars, upsVars,
               visVars, priceVars, topVars>>

vars == <<jobVars, orchVars, workVars, extVars>>

(***************************************************************************)
(* Helpers                                                                 *)
(***************************************************************************)
Min(a, b) == IF a < b THEN a ELSE b

Range(s) == {s[i] : i \in DOMAIN s}


(***************************************************************************)
(* Refresh job: fetchStockPrice                                            *)
(***************************************************************************)
\* What one upstream request can answer: a usable quote, a 2xx body whose
\* data.c is falsy, a non-2xx status, or a thrown network error.
Responses == {"quote", "empty", "status", "error"}

Answers(n) == IF n = "up" THEN {"quote"} ELSE Responses

\* The object built from Math.random() when the request did not give a quote.
MockPrices(symbol) ==
    {[symbol |-> symbol, changePercent |-> c, volume |-> v] :
        c \in ChangeVals, v \in MockVolumes}

\* The object built from a usable Finnhub body (volume: 0, changePercent: dp).
RealPrice(symbol, dp) == [symbol |-> symbol, changePercent |-> dp, volume |-> 0]

\* fetchStockPrice: a usable body gives the real quote; !response.ok throws
\* into the catch, a thrown fetch lands in the catch, a falsy data.c skips
\* the if: all three fall through to the mock object.  Never null.
fetchStockPrice(symbol, resp, dp, mock) ==
    IF resp = "quote" THEN RealPrice(symbol, dp) ELSE mock

\* Ghost: what the upstream did for the request.
Upstream(resp) == IF resp = "quote" THEN "quote" ELSE "failed"

(***************************************************************************)
(* Refresh job: batchUpdatePrices                                          *)
(***************************************************************************)
NumSymbols == Len(symbols)

\* The function timeout of the job, in ticks.
TimeoutTicks == JobTimeoutSeconds * 10

\* for (const symbol of batch) { const price = await fetchStockPrice(symbol)
FetchStart ==
    /\ jpc = "loop"
    /\ idx <= NumSymbols
    /\ callTimes' = Append(callTimes, clock)
    /\ inflight' = inflight + 1
    /\ jpc' = "fetching"
    /\ UNCHANGED <<symbols, net, market, latency, idx, prices, store,
                   allPrices, sidx, summary, clock, outcome>>
    /\ UNCHANGED <<orchVars, workVars, extVars>>

\* the request is answered; if (price) prices.push(price)
FetchEnd ==
    /\ jpc = "fetching"
    /\ \E resp \in Answers(net), mock \in MockPrices(symbols[idx]) :
          LET price == fetchStockPrice(symbols[idx], resp,
                                       market[symbols[idx]], mock)
          IN /\ prices' = Append(prices, price)
             /\ outcome' = [outcome EXCEPT ![symbols[idx]] = Upstream(resp)]
    /\ inflight' = inflight - 1
    /\ clock + latency <= TimeoutTicks
    /\ clock' = clock + latency
    /\ jpc' = "delay"
    /\ UNCHANGED <<symbols, net, market, latency, idx, store, allPrices,
                   sidx, summary, callTimes>>
    /\ UNCHANGED <<orchVars, workVars, extVars>>

\* await new Promise(resolve => setTimeout(resolve, 1100)), after every fetch;
\* the batch of batchSize symbols ends here when it is complete.
Delay ==
    /\ jpc = "delay"
    /\ clock + DelayTicks <= TimeoutTicks
    /\ clock' = clock + DelayTicks
    /\ idx' = idx + 1
    /\ jpc' = IF idx % FetchBatchSize = 0 \/ idx = NumSymbols
              THEN "write" ELSE "loop"
    /\ UNCHANGED <<symbols, net, market, latency, prices, store, allPrices,
                   sidx, summary, callTimes, inflight, outcome>>
    /\ UNCHANGED <<orchVars, workVars, extVars>>

\* PutRequest of one item: the record of the symbol is replaced.
Put(st, item) == {r \in st : r.symbol # item.symbol} \cup {item}

RECURSIVE PutAll(_, _)
PutAll(st, items) ==
    IF items = <<>> THEN st
    ELSE PutAll(Put(st, Head(items)), Tail(items))

\* if (items.length > 0) { try { BatchWriteCommand } catch { log } }
BatchWrite ==
    /\ jpc = "write"
    /\ \E ok \in BOOLEAN :
          store' = IF Len(prices) > 0 /\ ok THEN PutAll(store, prices)
                   ELSE store
    /\ prices' = <<>>
    /\ jpc' = "loop"
    /\ UNCHANGED <<symbols, net, market, latency, idx, allPrices, sidx,
                   summary, clock, callTimes, inflight, outcome>>
    /\ UNCHANGED <<orchVars, workVars, extVars>>

\* every batch is done: batchUpdatePrices returns
BatchesDone ==
    /\ jpc = "loop"
    /\ idx > NumSymbols
    /\ jpc' = "sample"
    /\ UNCHANGED <<symbols, net, market, latency, idx, prices, store,
                   allPrices, sidx, summary, clock, callTimes, inflight,
                   outcome>>
    /\ UNCHANGED <<orchVars, workVars, extVars>>

(***************************************************************************)
(* Refresh job: handler, market summary                                    *)
(***************************************************************************)
SampleCount == Min(NumSymbols, SampleSize)

\* Promise.all(symbols.slice(0, 30).map(s => fetchStockPrice(s))): every
\* request of the sample is issued before the first answer is awaited.
SampleStart ==
    /\ jpc = "sample"
    /\ callTimes' = callTimes \o [i \in 1..SampleCount |-> clock]
    /\ inflight' = inflight + SampleCount
    /\ sidx' = 1
    /\ jpc' = IF SampleCount = 0 THEN "summary" ELSE "sampling"
    /\ UNCHANGED <<symbols, net, market, latency, idx, prices, store,
                   allPrices, summary, clock, outcome>>
    /\ UNCHANGED <<orchVars, workVars, extVars>>

\* The answers arrive (taken in list order: Promise.all keeps the order of
\* the list whatever the order of arrival).
SampleEnd ==
    /\ jpc = "sampling"
    /\ \E resp \in Answers(net), mock \in MockPrices(symbols[sidx]) :
          allPrices' = Append(allPrices,
                              fetchStockPrice(symbols[sidx], resp,
                                              market[symbols[sidx]], mock))
    /\ inflight' = inflight - 1
    /\ sidx' = sidx + 1
    /\ clock + latency <= TimeoutTicks
    /\ clock' = IF sidx = SampleCount THEN clock + latency ELSE clock
    /\ jpc' = IF sidx = SampleCount THEN "summary" ELSE "sampling"
    /\ UNCHANGED <<symbols, net, market, latency, idx, prices, store,
                   summary, callTimes, outcome>>
    /\ UNCHANGED <<orchVars, workVars, extVars>>

\* validPrices.filter(p => p.changePercent > 0).length
Gainers(validPrices) ==
    Cardinality({i \in DOMAIN validPrices : validPrices[i].changePercent > 0})

\* validPrices.filter(p => p.changePercent < 0).length
Losers(validPrices) ==
    Cardinality({i \in DOMAIN validPrices : validPrices[i].changePercent < 0})

\* validPrices.filter(p => p.changePercent === 0).length
Unchanged(validPrices) ==
    Cardinality({i \in DOMAIN validPrices : validPrices[i].changePercent = 0})

\* the SP500_SUMMARY item; totalStocks: SP500.length
MarketSummary(validPrices, total) ==
    [gainers |-> Gainers(validPrices),
     losers |-> Losers(validPrices),
     unchanged |-> Unchanged(validPrices),
     totalStocks |-> total]

\* PutCommand of SP500_SUMMARY; a throw is caught by the handler (500)
PutSummary ==
    /\ jpc = "summary"
    /\ \E ok \in BOOLEAN :
          IF ok
          THEN /\ summary' = {MarketSummary(allPrices, NumSymbols)}
               /\ jpc' = "done"
          ELSE /\ summary' = summary
               /\ jpc' = "failed"
    /\ UNCHANGED <<symbols, net, market, latency, idx, prices, store,
                   allPrices, sidx, clock, callTimes, inflight, outcome>>
    /\ UNCHANGED <<orchVars, workVars, extVars>>

(***************************************************************************)
(* Specification of the refresh job                                        *)
(***************************************************************************)
JobStart ==
    /\ jpc = "loop"
    /\ idx = 1
    /\ prices = <<>>
    /\ allPrices = <<>>
    /\ sidx = 1
    /\ summary = {}
    /\ clock = 0
    /\ callTimes = <<>>
    /\ inflight = 0

InitJob ==
    /\ \E n \in 0..MaxRateSymbols :
          /\ symbols = [i \in 1..n |-> i]
          /\ IF n <= MaxSymbols
             THEN /\ net \in {"up", "flaky"}
                  /\ market \in [1..n -> ChangeVals]
             ELSE /\ net = "up"
                  /\ \E c \in ChangeVals : market = [i \in 1..n |-> c]
          /\ outcome = [i \in 1..n |-> "none"]
    /\ latency \in 0..MaxLatency
    /\ store = {}
    /\ JobStart

NextJob ==
    \/ FetchStart
    \/ FetchEnd
    \/ Delay
    \/ BatchWrite
    \/ BatchesDone
    \/ SampleStart
    \/ SampleEnd
    \/ PutSummary

(***************************************************************************)
(* One run of the refresh job against its function timeout                 *)
(***************************************************************************)
\* Sizes of the symbol list: the sample alone, the longest list a run can
\* finish, one symbol more, and the S&P 500 universe.
UniverseSizes == {30, 272, 273, 500}

\* The handler is still waiting (for the timer, or for an answer) when the
\* function has run for timeoutSeconds: the invocation is stopped.
JobTimeout ==
    /\ \/ jpc = "delay" /\ clock + DelayTicks > TimeoutTicks
       \/ jpc \in {"fetching", "sampling"} /\ clock + latency > TimeoutTicks
    /\ jpc' = "timeout"
    /\ clock' = TimeoutTicks
    /\ UNCHANGED <<symbols, net, market, latency, idx, prices, store,
                   allPrices, sidx, summary, callTimes, inflight, outcome>>
    /\ UNCHANGED <<orchVars, workVars, extVars>>

\* A batch write that the table accepts.
BatchWriteAccepted == BatchWrite /\ store' # store

\* The most favourable run: the upstream answers every request with a quote
\* and at once, and the table is empty.
InitRun ==
    /\ \E n \in UniverseSizes :
          /\ symbols = [i \in 1..n |-> i]
          /\ market = [i \in 1..n |-> 1]
          /\ outcome = [i \in 1..n |-> "none"]
    /\ net = "up"
    /\ latency = 0
    /\ store = {}
    /\ JobStart

NextRun ==
    \/ FetchStart
    \/ FetchEnd
    \/ Delay
    \/ BatchWriteAccepted
    \/ BatchesDone
    \/ SampleStart
    \/ SampleEnd
    \/ PutSummary
    \/ JobTimeout

(***************************************************************************)
(* Claims about the refresh job                                            *)
(***************************************************************************)
\* Upstream quote requests of the run started in the window (t - 60 s, t].
CallsInWindow(t) ==
    Cardinality({i \in DOMAIN callTimes :
                    t - WindowTicks < callTimes[i] /\ callTimes[i] <= t})

\* C1: for every symbol list, the refresh job (fetch loop and everything
\* else its handler calls) starts at most 60 upstream quote requests within
\* any rolling 60-second window.
C1_AtMost60CallsPerMinute ==
    \A i \in DOMAIN callTimes : CallsInWindow(callTimes[i]) <= RateLimit

\* C8: during a run at most one upstream quote request is in flight at any
\* moment, and consecutive requests of the run start at least one delay
\* apart.
C8_SequentialWithDelay ==
    /\ inflight <= 1
    /\ \A i \in DOMAIN callTimes :
          i > 1 => callTimes[i] - callTimes[i - 1] >= DelayTicks

\* The records a real quote for the symbol can produce.
RealPrices(symbol) == {RealPrice(symbol, c) : c \in ChangeVals}

\* The records of the batch the loop is in and the records it has persisted.
BatchResult == Range(prices) \cup store

\* C9: a failed fetch never aborts the batch (once the loop is over every
\* symbol of the list was requested), and the batch result tells the failed
\* symbols from the ones with a real quote: no record of a failed symbol
\* is one that a real quote could have produced.
C9_FailureIsolatedAndRecorded ==
    /\ jpc \notin {"loop", "fetching", "delay", "write"}
          => \A i \in DOMAIN symbols : outcome[symbols[i]] # "none"
    /\ \A r \in BatchResult :
          outcome[r.symbol] = "failed" => r \notin RealPrices(r.symbol)

\* The symbols the run fetched successfully whose reported percent change
\* lies in the set cs.
Fetched(cs) ==
    {i \in DOMAIN symbols :
        outcome[symbols[i]] = "quote" /\ market[symbols[i]] \in cs}

\* C10: the summary a run writes counts exactly the symbols the run fetched
\* successfully: gainers, losers and unchanged are the numbers of those with
\* changePct > 0, < 0 and = 0.
C10_SummaryCountsFetched ==
    jpc = "done" =>
        \A s \in summary :
            /\ s.gainers = Cardinality(Fetched({c \in ChangeVals : c > 0}))
            /\ s.losers = Cardinality(Fetched({c \in ChangeVals : c < 0}))
            /\ s.unchanged = Cardinality(Fetched({0}))

\* The symbols of the list that have a record in the MarketData table.
Refreshed == {i \in DOMAIN symbols : \E r \in store : r.symbol = symbols[i]}

\* C25: a run of the refresh job never meets its function timeout, and when
\* it has ended every symbol of the list, the whole S&P 500 universe
\* included, has been fetched and stored.
C25_WholeUniverseInOneRun ==
    /\ jpc # "timeout"
    /\ jpc \in {"done", "failed"} => Refreshed = DOMAIN symbols

(***************************************************************************)
(* Daily analysis orchestrator                                             *)
(***************************************************************************)
StockLists == {<<>>, <<1>>, <<1, 2>>}

\* A table of n records: arbitrary records for small n (a userId may occur
\* twice: the key of the table is id), otherwise eligible users only.
PrefTables(n) ==
    IF n <= MaxPrefs
    THEN {[i \in 1..n |-> [id |-> i, userId |-> f[i][1],
                           dailyInsightsOptIn |-> f[i][2],
                           selectedStocks |-> f[i][3]]] :
             f \in [1..n -> (1..MaxPrefs) \X BOOLEAN \X StockLists]}
    ELSE {[i \in 1..n |-> [id |-> i, userId |-> i,
                           dailyInsightsOptIn |-> TRUE,
                           selectedStocks |-> <<1>>]]}

\* A filter that forgets the opt-in flag.
ScanFilterNoOptIn(u) == Len(u.selectedStocks) > 0

\* FilterExpression: 'dailyInsightsOptIn = :optIn AND size(selectedStocks) > :zero'
ScanFilter(u) == u.dailyInsightsOptIn = TRUE /\ Len(u.selectedStocks) > 0

RECURSIVE FilterItems(_)
FilterItems(items) ==
    IF items = <<>> THEN <<>>
    ELSE (IF ScanFilter(Head(items)) THEN <<Head(items)>> ELSE <<>>)
         \o FilterItems(Tail(items))

\* Slices that run one item past their batch.
createBatchesOverlapping(array, batchSize) ==
    [b \in 1..((Len(array) + batchSize - 1) \div batchSize) |->
        SubSeq(array, (b - 1) * batchSize + 1,
               Min(b * batchSize + 1, Len(array)))]

\* createBatches(array, batchSize): slices of batchSize items, in order
createBatches(array, batchSize) ==
    [b \in 1..((Len(array) + batchSize - 1) \div batchSize) |->
        SubSeq(array, (b - 1) * batchSize + 1,
               Min(b * batchSize, Len(array)))]

\* A response that never carries a LastEvaluatedKey.
LastEvaluatedKeyNever(last) == 0

\* response.LastEvaluatedKey of a page that ends at item last: undefined (0)
\* once the table is exhausted.
LastEvaluatedKey(last) == IF last < Len(prefs) THEN last ELSE 0

\* One page of the Scan: the page covers the next k items of the table, the
\* response carries the items that pass the filter and, unless the table is
\* exhausted, a LastEvaluatedKey.  After the last page the handler goes on.
ScanPage ==
    /\ opc = "scan"
    /\ \E k \in 1..MaxPage :
          LET last == Min(lastEvaluatedKey + k, Len(prefs))
              items == FilterItems(SubSeq(prefs, lastEvaluatedKey + 1, last))
              key == LastEvaluatedKey(last)
              found == users \o items
          IN /\ users' = found
             /\ lastEvaluatedKey' = key
             /\ IF key # 0 THEN /\ opc' = "scan"
                                /\ batches' = batches
                ELSE IF Len(found) = 0
                     THEN /\ opc' = "empty"
                          /\ batches' = batches
                     ELSE /\ opc' = "send"
                          /\ batches' = createBatches(found, SendBatchSize)
    /\ UNCHANGED <<prefs, bidx, totalQueued, queue, rejected>>
    /\ UNCHANGED <<jobVars, workVars, extVars>>

\* docClient.send(ScanCommand) rejects: the handler logs and rethrows
ScanThrows ==
    /\ opc = "scan"
    /\ opc' = "thrown"
    /\ UNCHANGED <<prefs, lastEvaluatedKey, users, batches, bidx,
                   totalQueued, queue, rejected>>
    /\ UNCHANGED <<jobVars, workVars, extVars>>

\* The queue message built for a user; pref names the UserPreference record
\* the message was built from (not part of the message body).
Message(user) ==
    [userId |-> user.userId, selectedStocks |-> user.selectedStocks,
     pref |-> user.id]

\* SendMessageBatch needs pairwise distinct entry Ids (Id: user.userId)
DistinctIds(batch) ==
    \A i, j \in DOMAIN batch : i # j => batch[i].userId # batch[j].userId

\* A total that counts every entry of the batch.
QueuedAll(batch, successful) == Len(batch)

\* totalQueued += result.Successful?.length || 0
Queued(batch, successful) == Cardinality(successful)

\* One SendMessageBatch call: the queue accepts some entries (Successful)
\* and rejects the others (Failed), which the handler only logs.
SendBatch ==
    /\ opc = "send"
    /\ DistinctIds(batches[bidx])
    /\ \E failed \in SUBSET DOMAIN batches[bidx] :
          LET batch == batches[bidx]
              successful == DOMAIN batch \ failed
              Accepted(i) == i \in successful
              RECURSIVE Entries(_)
              Entries(i) == IF i > Len(batch) THEN <<>>
                            ELSE (IF Accepted(i) THEN <<Message(batch[i])>>
                                  ELSE <<>>) \o Entries(i + 1)
          IN /\ queue' = queue \o Entries(1)
             /\ totalQueued' = totalQueued + Queued(batch, successful)
             /\ rejected' = rejected \cup {batch[i].id : i \in failed}
    /\ bidx' = bidx + 1
    /\ opc' = IF bidx = Len(batches) THEN "done" ELSE "send"
    /\ UNCHANGED <<prefs, lastEvaluatedKey, users, batches>>
    /\ UNCHANGED <<jobVars, workVars, extVars>>

\* sqsClient.send rejects (the request fails, or the entry Ids of the batch
\* are not distinct): the handler logs and rethrows, later batches are not
\* sent.
SendBatchThrows ==
    /\ opc = "send"
    /\ opc' = "thrown"
    /\ UNCHANGED <<prefs, lastEvaluatedKey, users, batches, bidx,
                   totalQueued, queue, rejected>>
    /\ UNCHANGED <<jobVars, workVars, extVars>>

OrchStart ==
    /\ opc = "scan"
    /\ lastEvaluatedKey = 0
    /\ users = <<>>
    /\ batches = <<>>
    /\ bidx = 1
    /\ totalQueued = 0
    /\ queue = <<>>
    /\ rejected = {}

InitOrch ==
    /\ \E n \in 0..MaxManyPrefs : prefs \in PrefTables(n)
    /\ OrchStart

NextOrch ==
    \/ ScanPage
    \/ ScanThrows
    \/ SendBatch
    \/ SendBatchThrows

(***************************************************************************)
(* Claims about the orchestrator                                           *)
(***************************************************************************)
\* The users the specification wants a task for.
Eligible(u) == u.dailyInsightsOptIn /\ u.selectedStocks # <<>>

\* Number of tasks in the queue that were built from preference record p.
Tasks(p) == Cardinality({i \in DOMAIN queue : queue[i].pref = p})

\* C2 (as stated): when a run has returned, the queue holds exactly one task
\* for every eligible UserPreference and none for any other.
C2_ExactlyOnePerEligible ==
    opc \in {"done", "empty"} =>
        \A i \in DOMAIN prefs :
            Tasks(prefs[i].id) = IF Eligible(prefs[i]) THEN 1 ELSE 0

\* C2 (amended): a run never enqueues a task for a UserPreference that is
\* not eligible and never more than one for any; when the run returns, every
\* eligible UserPreference whose entry the queue did not reject has exactly
\* one task.
C2_OnePerAcceptedEligible ==
    \A i \in DOMAIN prefs :
        /\ Tasks(prefs[i].id) <= 1
        /\ Tasks(prefs[i].id) = 1 => Eligible(prefs[i])
        /\ (opc \in {"done", "empty"} /\ Eligible(prefs[i])
              /\ prefs[i].id \notin rejected) => Tasks(prefs[i].id) = 1

\* A run returned with a task for an eligible user, none for a user who
\* selected stocks but did not opt in, and none for a rejected entry.
C2_Witness ==
    /\ opc = "done"
    /\ \E i \in DOMAIN prefs : Eligible(prefs[i]) /\ Tasks(prefs[i].id) = 1
    /\ \E i \in DOMAIN prefs :
          /\ ~prefs[i].dailyInsightsOptIn
          /\ prefs[i].selectedStocks # <<>>
          /\ Tasks(prefs[i].id) = 0

\* C16: getUsersForDailyAnalysis follows LastEvaluatedKey through every page:
\* while it scans, users holds the filtered items of all pages read so far,
\* and once it has returned, users is the list of all items of the table
\* that pass the filter, in scan order, and the last response carried no
\* key.
C16_ScanReturnsAllPages ==
    /\ opc = "scan" =>
          users = SelectSeq(SubSeq(prefs, 1, lastEvaluatedKey), Eligible)
    /\ opc \in {"send", "done", "empty"} =>
          /\ users = SelectSeq(prefs, Eligible)
          /\ lastEvaluatedKey = 0

\* The scan took several pages and returned more users than one page holds.
C16_Witness ==
    /\ opc = "done"
    /\ Len(users) > MaxPage
    /\ users = SelectSeq(prefs, Eligible)

\* C17: a SendMessageBatch call that rejects some of its entries does not
\* end the run: the rejected entries are noted, the loop moves on to the next
\* batch (or returns after the last one), no accepted entry ever leaves the
\* queue, and the total always equals the number of accepted entries.
C17_PartialFailureNotFatal ==
    [][/\ Len(queue') >= Len(queue)
       /\ SubSeq(queue', 1, Len(queue)) = queue
       /\ totalQueued' = Len(queue')
       /\ rejected' # rejected =>
             /\ bidx' = bidx + 1
             /\ opc' = IF bidx = Len(batches) THEN "done" ELSE "send"]_vars

\* The first batch had a rejected entry, an entry of the second batch is in
\* the queue, and the run returned.
C17_Witness ==
    /\ opc = "done"
    /\ Len(batches) >= 2
    /\ \E i \in DOMAIN batches[1] : batches[1][i].id \in rejected
    /\ \E j \in DOMAIN batches[2] : Tasks(batches[2][j].id) = 1
    /\ totalQueued = Len(queue)
    /\ totalQueued < Len(users)

RECURSIVE Flatten(_)
Flatten(lists) ==
    IF lists = <<>> THEN <<>> ELSE Head(lists) \o Flatten(Tail(lists))

\* C22: createBatches(users, 10) splits the users the scan returned into
\* consecutive batches: every batch is non-empty and has at most 10 entries,
\* the batches concatenated are the list of users in its order (so every
\* position of the list lies in exactly one batch), and the loop sends one
\* batch per call: batch b in call b, all of them once the run has returned.
C22_BatchesPartitionUsers ==
    opc \in {"send", "done"} =>
        /\ batches # <<>>
        /\ \A b \in DOMAIN batches :
              Len(batches[b]) >= 1 /\ Len(batches[b]) <= 10
        /\ Flatten(batches) = users
        /\ bidx \in 1..(Len(batches) + 1)
        /\ opc = "send" => bidx <= Len(batches)
        /\ opc = "done" => bidx = Len(batches) + 1

\* Eleven users were split into a batch of ten and a batch of one, and both
\* were sent.
C22_Witness ==
    /\ opc = "done"
    /\ Len(users) = 11
    /\ Len(batches) = 2
    /\ Len(batches[1]) = 10
    /\ Len(batches[2]) = 1
    /\ Len(queue) = 11

\* C29: whenever the orchestrator is about to issue a SendMessageBatch call,
\* the entry Ids of the batch (the users' userId) are pairwise distinct,
\* whatever records the UserPreference table holds.
C29_BatchIdsDistinct ==
    opc = "send" => DistinctIds(batches[bidx])

(***************************************************************************)
(* User analysis queue and daily analysis worker                           *)
(***************************************************************************)
Workers == 1..MaxWorkers

Idle == [records |-> <<>>, step |-> <<>>, data |-> <<>>, done |-> <<>>,
         threw |-> <<>>]

Finished(st) == st \in {"success", "failed"}

\* fetchStockData / MarketData.list: the selected symbols that have a record
Resolved(stocks) ==
    LET Has(sym) == \E r \in store : r.symbol = sym
    IN SelectSeq(stocks, Has)

\* Whether a step of processUserAnalysis throws: the awaited call rejects,
\* or (part_018) generatePortfolioAnalysis reduces an empty stockData array
\* without an initial value, which is a TypeError.
Throws(handler, step, data, ok) ==
    \/ ~ok
    \/ handler = "ses" /\ step = "llm" /\ data = <<>>

\* A worker that sends the email before it writes the history record.
NextStepSesEmailFirst(step, data, ok) ==
    IF Throws("ses", step, data, ok) THEN "failed"
    ELSE CASE step = "quotes" -> "llm"
           [] step = "llm" -> "email"
           [] step = "email" -> "history"
           [] step = "history" -> "success"

\* A worker that catches the rejection of the email send and goes on.
NextStepSesEmailCaught(step, data, ok) ==
    IF step = "email" THEN "success"
    ELSE IF Throws("ses", step, data, ok) THEN "failed"
    ELSE CASE step = "quotes" -> "llm"
           [] step = "llm" -> "history"
           [] step = "history" -> "email"

\* part_018 processUserAnalysis: quotes, analysis, history, email; no catch
NextStepSes(step, data, ok) ==
    IF Throws("ses", step, data, ok) THEN "failed"
    ELSE CASE step = "quotes" -> "llm"
           [] step = "llm" -> "history"
           [] step = "history" -> "email"
           [] step = "email" -> "success"

\* part_017 processUserAnalysis: quotes, early return when nothing resolved,
\* history (the analysis is computed locally), lastAnalysisDate update; the
\* email is only logged; the catch rethrows.
NextStepAmplify(step, data, ok) ==
    IF Throws("amplify", step, data, ok) THEN "failed"
    ELSE CASE step = "quotes" -> IF data = <<>> THEN "success" ELSE "history"
           [] step = "history" -> "prefs"
           [] step = "prefs" -> "success"

NextStep(handler, step, data, ok) ==
    IF handler = "ses" THEN NextStepSes(step, data, ok)
    ELSE NextStepAmplify(step, data, ok)

\* part_018 awaits the records one after the other; part_017 maps all the
\* records to promises at once.
CanRun(w, i, step) ==
    /\ i \in DOMAIN inv[w].records
    /\ inv[w].step[i] = step
    /\ impl = "ses" => \A j \in 1..(i - 1) : Finished(inv[w].step[j])

\* The record moves on after its step ran with the given outcome.
Advance(w, i, step, data, ok) ==
    inv' = [inv EXCEPT
              ![w].step[i] = NextStep(impl, step, data, ok),
              ![w].data[i] = data,
              ![w].done[i] = IF Throws(impl, step, data, ok)
                             THEN @ ELSE @ \cup {step},
              ![w].threw[i] = @ \/ Throws(impl, step, data, ok)]

\* The messages a poll may hand to one invocation: up to BatchSize visible
\* messages that have not used up their receives.
Receivable(m) ==
    mstate[m] = "visible" /\ receiveCount[m] < MaxReceiveCount

Polls ==
    {recs \in UNION {[1..k -> DOMAIN msgs] : k \in 1..BatchSize} :
        /\ \A i \in DOMAIN recs : Receivable(recs[i])
        /\ \A i, j \in DOMAIN recs : i # j => recs[i] # recs[j]}

\* The event source polls the queue and invokes the handler with the records
\* (the invocation takes the first free slot: the slots are interchangeable).
Deliver(w, recs) ==
    /\ inv[w] = Idle
    /\ \A v \in 1..(w - 1) : inv[v] # Idle
    /\ mstate' = [m \in DOMAIN msgs |->
                    IF m \in Range(recs) THEN "inflight" ELSE mstate[m]]
    /\ receiveCount' = [m \in DOMAIN msgs |->
                          IF m \in Range(recs) THEN receiveCount[m] + 1
                          ELSE receiveCount[m]]
    /\ inv' = [inv EXCEPT ![w] =
                 [records |-> recs,
                  step |-> [i \in DOMAIN recs |-> "quotes"],
                  data |-> [i \in DOMAIN recs |-> <<>>],
                  done |-> [i \in DOMAIN recs |-> {}],
                  threw |-> [i \in DOMAIN recs |-> FALSE]]]
    /\ UNCHANGED <<impl, msgs, timedOut, llmCalls, history, emails>>
    /\ UNCHANGED <<jobVars, orchVars, extVars>>

\* redrive policy: a message received maxReceiveCount times goes to the
\* dead-letter queue instead of being handed out again
Redrive(m) ==
    /\ mstate[m] = "visible"
    /\ receiveCount[m] >= MaxReceiveCount
    /\ mstate' = [mstate EXCEPT ![m] = "dlq"]
    /\ UNCHANGED <<impl, msgs, receiveCount, timedOut, llmCalls, history,
                   emails, inv>>
    /\ UNCHANGED <<jobVars, orchVars, extVars>>

\* 1. fetch the market data of the selected stocks
FetchStockData(w, i) ==
    /\ CanRun(w, i, "quotes")
    /\ \E ok \in BOOLEAN :
          Advance(w, i, "quotes",
                  IF ok THEN Resolved(msgs[inv[w].records[i]].selectedStocks)
                  ELSE <<>>, ok)
    /\ UNCHANGED <<impl, msgs, mstate, receiveCount, timedOut, llmCalls,
                   history, emails>>
    /\ UNCHANGED <<jobVars, orchVars, extVars>>

\* 2. generatePortfolioAnalysis (part_018): top gainer / loser by reduce, then
\* one chat completion
GeneratePortfolioAnalysis(w, i) ==
    /\ CanRun(w, i, "llm")
    /\ \E ok \in BOOLEAN : Advance(w, i, "llm", inv[w].data[i], ok)
    /\ llmCalls' = [llmCalls EXCEPT ![inv[w].records[i]] =
                       IF inv[w].data[i] = <<>> THEN @ ELSE @ + 1]
    /\ UNCHANGED <<impl, msgs, mstate, receiveCount, timedOut, history,
                   emails>>
    /\ UNCHANGED <<jobVars, orchVars, extVars>>

\* 3. saveAnalysisHistory / AnalysisHistory.create
SaveAnalysisHistory(w, i) ==
    /\ CanRun(w, i, "history")
    /\ \E ok \in BOOLEAN :
          /\ Advance(w, i, "history", inv[w].data[i], ok)
          /\ history' = [history EXCEPT ![inv[w].records[i]] =
                           IF ok THEN @ + 1 ELSE @]
    /\ UNCHANGED <<impl, msgs, mstate, receiveCount, timedOut, llmCalls,
                   emails>>
    /\ UNCHANGED <<jobVars, orchVars, extVars>>

\* 4. sendAnalysisEmail (part_018)
SendAnalysisEmail(w, i) ==
    /\ CanRun(w, i, "email")
    /\ \E ok \in BOOLEAN :
          /\ Advance(w, i, "email", inv[w].data[i], ok)
          /\ emails' = [emails EXCEPT ![inv[w].records[i]] =
                          IF ok THEN @ + 1 ELSE @]
    /\ UNCHANGED <<impl, msgs, mstate, receiveCount, timedOut, llmCalls,
                   history>>
    /\ UNCHANGED <<jobVars, orchVars, extVars>>

\* 4. update of the user's lastAnalysisDate (part_017)
UpdateLastAnalysisDate(w, i) ==
    /\ CanRun(w, i, "prefs")
    /\ \E ok \in BOOLEAN : Advance(w, i, "prefs", inv[w].data[i], ok)
    /\ UNCHANGED <<impl, msgs, mstate, receiveCount, timedOut, llmCalls,
                   history, emails>>
    /\ UNCHANGED <<jobVars, orchVars, extVars>>

\* A handler that catches every error and reports nothing.
BatchItemFailuresNone(records, steps) == {}

\* batchItemFailures: the messageId of every record that failed
BatchItemFailures(records, steps) ==
    {records[i] : i \in {j \in DOMAIN records : steps[j] = "failed"}}

\* The handler returns: the event source deletes the records that are not in
\* batchItemFailures; the others stay in the queue and are visible again
\* once the visibility timeout (360 s, longer than the function timeout of
\* 300 s) has passed.
HandlerReturn(w) ==
    /\ inv[w] # Idle
    /\ \A i \in DOMAIN inv[w].records : Finished(inv[w].step[i])
    /\ mstate' = [m \in DOMAIN msgs |->
                    IF m \notin Range(inv[w].records) THEN mstate[m]
                    ELSE IF m \in BatchItemFailures(inv[w].records,
                                                    inv[w].step)
                         THEN "visible" ELSE "deleted"]
    /\ inv' = [inv EXCEPT ![w] = Idle]
    /\ UNCHANGED <<impl, msgs, receiveCount, timedOut, llmCalls, history,
                   emails>>
    /\ UNCHANGED <<jobVars, orchVars, extVars>>

\* The invocation hits the function timeout (timeoutSeconds: 300) while a
\* call is pending: nothing is reported, every record of the event becomes
\* visible again.
LambdaTimeout(w) ==
    /\ inv[w] # Idle
    /\ \E i \in DOMAIN inv[w].records : ~Finished(inv[w].step[i])
    /\ mstate' = [m \in DOMAIN msgs |->
                    IF m \in Range(inv[w].records) THEN "visible"
                    ELSE mstate[m]]
    /\ inv' = [inv EXCEPT ![w] = Idle]
    /\ timedOut' = [m \in DOMAIN msgs |->
                      timedOut[m] \/ m \in Range(inv[w].records)]
    /\ UNCHANGED <<impl, msgs, receiveCount, llmCalls, history, emails>>
    /\ UNCHANGED <<jobVars, orchVars, extVars>>

\* The selections of the tasks: symbol 1 has a record in the MarketData
\* table, symbol 2 has none, so a selection resolves not at all or in part.
Selections == {<<2>>, <<1, 2>>}

\* The queue after a run of the orchestrator: one task per eligible user.
InitWork ==
    /\ impl \in {"ses", "amplify"}
    /\ \E n \in 1..MaxTasks :
          /\ msgs \in [1..n -> {Message([id |-> 0, userId |-> 0,
                                         selectedStocks |-> sl]) :
                                    sl \in Selections}]
          /\ mstate = [m \in 1..n |-> "visible"]
          /\ receiveCount = [m \in 1..n |-> 0]
          /\ timedOut = [m \in 1..n |-> FALSE]
          /\ llmCalls = [m \in 1..n |-> 0]
          /\ history = [m \in 1..n |-> 0]
          /\ emails = [m \in 1..n |-> 0]
    /\ inv = [w \in Workers |-> Idle]
    /\ store = {RealPrice(1, 1)}

WorkIdle ==
    /\ impl = "ses"
    /\ msgs = <<>>
    /\ mstate = <<>>
    /\ receiveCount = <<>>
    /\ timedOut = <<>>
    /\ llmCalls = <<>>
    /\ history = <<>>
    /\ emails = <<>>
    /\ inv = [w \in Workers |-> Idle]

NextWork ==
    \/ \E w \in Workers, recs \in Polls : Deliver(w, recs)
    \/ \E m \in DOMAIN msgs : Redrive(m)
    \/ \E w \in Workers, i \in 1..BatchSize : FetchStockData(w, i)
    \/ \E w \in Workers, i \in 1..BatchSize : GeneratePortfolioAnalysis(w, i)
    \/ \E w \in Workers, i \in 1..BatchSize : SaveAnalysisHistory(w, i)
    \/ \E w \in Workers, i \in 1..BatchSize : SendAnalysisEmail(w, i)
    \/ \E w \in Workers, i \in 1..BatchSize : UpdateLastAnalysisDate(w, i)
    \/ \E w \in Workers : HandlerReturn(w)
    \/ \E w \in Workers : LambdaTimeout(w)

(***************************************************************************)
(* Claims about the queue and the worker                                   *)
(***************************************************************************)
IsTask(m) == m \in DOMAIN msgs

\* The message was received three times, its processing threw every time
\* and it waits in the queue.
FailedThrice(m) ==
    /\ IsTask(m)
    /\ mstate[m] = "visible"
    /\ receiveCount[m] = 3
    /\ ~timedOut[m]

\* C3: a message whose processing threw on each of its 3 deliveries is
\* moved to the dead-letter queue; no message is delivered a 4th time and
\* the failed message is not dropped.
C3_ThreeFailuresThenDeadLetter ==
    /\ [](\A m \in DOMAIN msgs : receiveCount[m] <= 3)
    /\ [][\A m \in DOMAIN msgs :
            FailedThrice(m) => mstate'[m] \in {"visible", "dlq"}]_vars
    /\ \A m \in 1..MaxTasks :
          FailedThrice(m) ~> (IsTask(m) /\ mstate[m] = "dlq")

\* A message is in the dead-letter queue after three deliveries that all
\* ended in a throw.
C3_Witness ==
    \E m \in DOMAIN msgs :
        mstate[m] = "dlq" /\ receiveCount[m] = 3 /\ ~timedOut[m]

Terminal(m) == IsTask(m) /\ mstate[m] \in {"deleted", "dlq"}

\* The record of message m in a running invocation ended successfully.
RanSuccessfully(m) ==
    \E w \in Workers : \E i \in DOMAIN inv[w].records :
        inv[w].records[i] = m /\ inv[w].step[i] = "success"

\* C4: every task in the queue eventually is either acknowledged (deleted)
\* or in the dead-letter queue, and stays there; it is deleted only after a
\* successful worker run and dead-lettered only after 3 deliveries.
C4_EveryTaskEndsOnce ==
    /\ \A m \in 1..MaxTasks : IsTask(m) ~> Terminal(m)
    /\ [][\A m \in DOMAIN msgs :
            /\ Terminal(m) => mstate'[m] = mstate[m]
            /\ (mstate[m] # "deleted" /\ mstate'[m] = "deleted")
                  => RanSuccessfully(m)]_vars
    /\ [](\A m \in DOMAIN msgs : mstate[m] = "dlq" => receiveCount[m] = 3)

\* One task was acknowledged after a redelivery, another one is in the
\* dead-letter queue.
C4_Witness ==
    \E m1, m2 \in DOMAIN msgs :
        /\ mstate[m1] = "deleted" /\ receiveCount[m1] > 1
        /\ mstate[m2] = "dlq"

\* The steps a run of the deployed handler has when nothing throws.
RequiredSteps(handler, data) ==
    IF handler = "ses" THEN {"quotes", "llm", "history", "email"}
    ELSE IF data = <<>> THEN {"quotes"}
    ELSE {"quotes", "history", "prefs"}

C6_FailuresAreIsolated ==
    [][\A w \in Workers : \A i \in DOMAIN inv[w].records :
          /\ (inv[w].step[i] = "success" /\ inv'[w] = Idle)
                => mstate'[inv[w].records[i]] = "deleted"
          /\ (~inv[w].threw[i] /\ inv'[w] # Idle /\ inv'[w].threw[i]) =>
                /\ \A m \in DOMAIN msgs :
                      m # inv[w].records[i] => mstate'[m] = mstate[m]
                /\ \A v \in Workers : v # w => inv'[v] = inv[v]
                /\ \A j \in DOMAIN inv[w].records :
                      j # i => inv'[w].step[j] = inv[w].step[j]]_vars

\* One task was acknowledged although another task threw twice and is being
\* processed again.
C6_Witness ==
    \E m1, m2 \in DOMAIN msgs :
        /\ mstate[m1] = "deleted"
        /\ mstate[m2] = "inflight"
        /\ receiveCount[m2] = 3
        /\ ~timedOut[m2]

\* C7: when the quote lookup of a task succeeds and resolves none of its
\* symbols, the run does not throw (the record is not reported as failed)
\* and no chat completion, history record or email is produced for it.
C7_NoQuotesIsSuccess ==
    \A w \in Workers : \A i \in DOMAIN inv[w].records :
        ("quotes" \in inv[w].done[i] /\ inv[w].data[i] = <<>>) =>
            /\ ~inv[w].threw[i]
            /\ inv[w].step[i] # "failed"
            /\ llmCalls[inv[w].records[i]] = 0
            /\ history[inv[w].records[i]] = 0
            /\ emails[inv[w].records[i]] = 0

\* C14: no call of a worker run stays pending for good: every invocation
\* ends with the handler returning, each of its records either processed to
\* the end or failed, and is never cut off while a call is pending.
C14_HungCallNeverBlocks ==
    [][\A w \in Workers :
          (inv[w] # Idle /\ inv'[w] = Idle) =>
              \A i \in DOMAIN inv[w].records : Finished(inv[w].step[i])]_vars

\* C19: over all deliveries of a user's task, at most one AnalysisHistory
\* record is written for that user and run.
C19_OneHistoryRecordPerRun ==
    \A m \in DOMAIN msgs : history[m] <= 1

\* The order of the steps of processUserAnalysis in the deployed handler.
StepOrder(handler) ==
    IF handler = "ses" THEN <<"quotes", "llm", "history", "email">>
    ELSE <<"quotes", "history", "prefs">>

\* C24: within one run of the worker for a task the steps complete in the
\* fixed order quote lookup, analysis, history write, email send (the steps
\* completed so far are always an initial part of that order, so the email
\* is never sent before the history record was written), and once a step
\* threw, the run is over for the task: no later step completes in it.
C24_StepsInOrder ==
    /\ [](\A w \in Workers : \A i \in DOMAIN inv[w].records :
            /\ \E k \in 0..Len(StepOrder(impl)) :
                  inv[w].done[i] = {StepOrder(impl)[j] : j \in 1..k}
            /\ "email" \in inv[w].done[i] => "history" \in inv[w].done[i]
            /\ inv[w].threw[i] => inv[w].step[i] = "failed")
    /\ [][\A w \in Workers : \A i \in DOMAIN inv[w].records :
            (inv[w].threw[i] /\ inv'[w] # Idle) =>
                /\ inv'[w].done[i] = inv[w].done[i]
                /\ history'[inv[w].records[i]] = history[inv[w].records[i]]
                /\ emails'[inv[w].records[i]] = emails[inv[w].records[i]]]_vars

\* One run completed all four steps and sent its email after the history
\* write; in another run the history write threw after the analysis, and
\* neither the history record nor the email of that task exists.
C24_Witness ==
    /\ impl = "ses"
    /\ \E w1, w2 \in Workers :
          /\ inv[w1] # Idle
          /\ inv[w2] # Idle
          /\ inv[w1].done[1] = {"quotes", "llm", "history", "email"}
          /\ emails[inv[w1].records[1]] = 1
          /\ history[inv[w1].records[1]] = 1
          /\ inv[w2].threw[1]
          /\ inv[w2].done[1] = {"quotes", "llm"}
          /\ history[inv[w2].records[1]] = 0
          /\ emails[inv[w2].records[1]] = 0

(***************************************************************************)
(* Quote route: GET and POST of app/api/finnhub/quote                      *)
(***************************************************************************)
QSymbols == {1, 2}         \* symbols clients ask for
TimeSteps == {1, PostDelay, CACHE_TTL - 1}  \* how far the clock advances

\* The symbol lists of the batch requests: short ones, and one that is
\* longer than the route accepts.
PostBodies ==
    {<<1>>, <<2, 1>>, <<1, 1, 1, 1, 1, 1, 1, 1, 1, 1, 2>>}

\* What the upstream answers to one request of the route.
QuoteAnswers == {"ok", "status", "throw"}

\* data.c the upstream reports: the market moves as time passes.
UpstreamPrice == ticks + 1

StockData(symbol, price) == [symbol |-> symbol, currentPrice |-> price]

\* calls and lookups are ghosts: the upstream calls the request has started
\* (symbol and start time) and the cache entries it has looked at.
NoRequest ==
    [kind |-> "none", symbols |-> <<>>, pc |-> "idle", i |-> 1,
     results |-> <<>>, status |-> 0, until |-> 0, lookups |-> {},
     calls |-> <<>>]

\* fetch(`${FINNHUB_BASE_URL}/quote?symbol=${symbol}...`) starts now
Call(symbol) == [symbol |-> symbol, at |-> now]

\* cached && Date.now() - cached.timestamp < CACHE_TTL, with a "<=".
isFreshInclusive(entry, t) == t - entry.timestamp <= CACHE_TTL

\* cached && Date.now() - cached.timestamp < CACHE_TTL
isFresh(entry, t) == t - entry.timestamp < CACHE_TTL

Fresh(symbol) == symbol \in DOMAIN cache /\ isFresh(cache[symbol], now)

\* What one cache lookup saw: the age of the entry it found and whether the
\* entry's data was served.
Lookup(symbol) ==
    IF symbol \in DOMAIN cache
    THEN {[age |-> now - cache[symbol].timestamp, served |-> Fresh(symbol)]}
    ELSE {}

\* cache.set(symbol, { data: stockData, timestamp: Date.now() })
CacheSet(symbol, price) ==
    [s \in DOMAIN cache \cup {symbol} |->
        IF s = symbol
        THEN [data |-> StockData(symbol, price), timestamp |-> now]
        ELSE cache[s]]

Respond(r, status, results) ==
    [reqs[r] EXCEPT !.pc = "done", !.status = status, !.results = results]

\* A slot is taken when the slots before it are.
Arrives(r) ==
    /\ reqs[r].kind = "none"
    /\ \A q \in 1..(r - 1) : reqs[q].kind # "none"

\* GET up to its first await; symbol 0 stands for a missing parameter.
GetStart(r, symbol) ==
    /\ Arrives(r)
    /\ LET q == [reqs[r] EXCEPT !.kind = "GET", !.symbols = <<symbol>>,
                                !.lookups = IF symbol = 0 THEN {}
                                            ELSE Lookup(symbol)]
       IN reqs' = [reqs EXCEPT ![r] =
            IF symbol = 0
            THEN [q EXCEPT !.pc = "done", !.status = 400]
            ELSE IF Fresh(symbol)
            THEN [q EXCEPT !.pc = "done", !.status = 200,
                           !.results = <<cache[symbol].data>>]
            ELSE [q EXCEPT !.pc = "fetch", !.calls = <<Call(symbol)>>]]
    /\ UNCHANGED <<cache, now, ticks, notQuote>>

\* A GET that drops the entry of the symbol when the upstream fails.
GetFetchedEvicting(r, answer) ==
    /\ reqs[r].kind = "GET"
    /\ reqs[r].pc = "fetch"
    /\ LET symbol == reqs[r].symbols[1]
           price == UpstreamPrice
       IN IF answer = "ok"
          THEN /\ cache' = CacheSet(symbol, price)
               /\ reqs' = [reqs EXCEPT ![r] =
                             Respond(r, 200, <<StockData(symbol, price)>>)]
          ELSE /\ cache' = [s \in DOMAIN cache \ {symbol} |-> cache[s]]
               /\ reqs' = [reqs EXCEPT ![r] = Respond(r, 500, <<>>)]
    /\ UNCHANGED <<now, ticks, notQuote>>

\* GET from the answer of the upstream to its return.
GetFetched(r, answer) ==
    /\ reqs[r].kind = "GET"
    /\ reqs[r].pc = "fetch"
    /\ LET symbol == reqs[r].symbols[1]
           price == UpstreamPrice
       IN IF answer = "ok"
          THEN /\ cache' = CacheSet(symbol, price)
               /\ reqs' = [reqs EXCEPT ![r] =
                             Respond(r, 200, <<StockData(symbol, price)>>)]
          ELSE /\ cache' = cache
               /\ reqs' = [reqs EXCEPT ![r] = Respond(r, 500, <<>>)]
    /\ UNCHANGED <<now, ticks, notQuote>>

\* The first index from i on whose symbol the cache does not answer.
RECURSIVE FirstMiss(_, _)
FirstMiss(list, i) ==
    IF i > Len(list) \/ ~Fresh(list[i]) THEN i ELSE FirstMiss(list, i + 1)

\* The POST loop from index i up to its next await or its return: cached
\* symbols are pushed, the first other symbol is fetched.
RunLoop(r, q, i) ==
    LET list == q.symbols
        m == FirstMiss(list, i)
        seen == UNION {Lookup(list[k]) : k \in i..Min(m, Len(list))}
        pushed == [k \in 1..(m - i) |-> cache[list[i + k - 1]].data]
        p == [q EXCEPT !.i = m, !.results = @ \o pushed,
                       !.lookups = @ \cup seen]
    IN IF m > Len(list)
       THEN [p EXCEPT !.pc = "done", !.status = 200]
       ELSE [p EXCEPT !.pc = "fetch", !.calls = Append(@, Call(list[m]))]

\* POST up to its first await; an empty body stands for a body without a
\* symbols array.
PostStart(r, body) ==
    /\ Arrives(r)
    /\ LET q == [reqs[r] EXCEPT !.kind = "POST",
                                !.symbols = SubSeq(body, 1,
                                                Min(Len(body), PostLimit))]
       IN reqs' = [reqs EXCEPT ![r] =
            IF body = <<>>
            THEN [q EXCEPT !.pc = "done", !.status = 400]
            ELSE RunLoop(r, q, 1)]
    /\ UNCHANGED <<cache, now, ticks, notQuote>>

\* POST from the answer of the upstream to the setTimeout of the loop.
PostFetched(r, answer) ==
    /\ reqs[r].kind = "POST"
    /\ reqs[r].pc = "fetch"
    /\ LET symbol == reqs[r].symbols[reqs[r].i]
           price == UpstreamPrice
       IN CASE answer = "ok" ->
                 /\ cache' = CacheSet(symbol, price)
                 /\ reqs' = [reqs EXCEPT ![r] =
                       [@ EXCEPT !.pc = "wait", !.until = now + PostDelay,
                                 !.results =
                                    Append(@, StockData(symbol, price))]]
            [] answer = "status" ->
                 /\ cache' = cache
                 /\ reqs' = [reqs EXCEPT ![r] =
                       [@ EXCEPT !.pc = "wait", !.until = now + PostDelay]]
            [] OTHER ->
                 /\ cache' = cache
                 /\ reqs' = [reqs EXCEPT ![r] = Respond(r, 500, <<>>)]
    /\ UNCHANGED <<now, ticks, notQuote>>

\* POST from the end of the setTimeout to its next await or its return.
PostWake(r) ==
    /\ reqs[r].kind = "POST"
    /\ reqs[r].pc = "wait"
    /\ now >= reqs[r].until
    /\ reqs' = [reqs EXCEPT ![r] = RunLoop(r, reqs[r], reqs[r].i + 1)]
    /\ UNCHANGED <<cache, now, ticks, notQuote>>

\* Time passes.
Tick(d) ==
    /\ ticks < MaxTicks
    /\ now' = now + d
    /\ ticks' = ticks + 1
    /\ UNCHANGED <<cache, reqs, notQuote>>

QuoteStart ==
    /\ cache = <<>>
    /\ now = 0
    /\ ticks = 0
    /\ reqs = [r \in 1..MaxRequests |-> NoRequest]

InitQuote == QuoteStart

NextQuote ==
    \/ \E r \in 1..MaxRequests :
          \/ \E symbol \in QSymbols \cup {0} : GetStart(r, symbol)
          \/ \E answer \in QuoteAnswers : GetFetched(r, answer)
          \/ \E body \in PostBodies \cup {<<>>} : PostStart(r, body)
          \/ \E answer \in QuoteAnswers : PostFetched(r, answer)
          \/ PostWake(r)
    \/ \E d \in TimeSteps : Tick(d)

(***************************************************************************)
(* Claims about the quote route                                            *)
(***************************************************************************)
AllLookups == UNION {reqs[r].lookups : r \in 1..MaxRequests}

\* C11: a cache entry is served exactly when its age is below 60 000 ms: an
\* entry of any smaller age is served, an entry aged exactly 60 000 ms or
\* more is treated as expired.
C11_FreshIffYoungerThanTtl ==
    \A l \in AllLookups : l.served <=> l.age < 60000

\* One request was answered from an entry aged 59 999 ms, another one found
\* an entry aged exactly 60 000 ms and went to the upstream.
C11_Witness ==
    /\ \E l \in AllLookups : l.age = 59999 /\ l.served
    /\ \E l \in AllLookups : l.age = 60000 /\ ~l.served

\* C21: a batch request handles at most 10 symbols, and consecutive
\* upstream calls of one batch request start at least 1.1 seconds apart.
C21_BatchPacedAndLimited ==
    \A r \in 1..MaxRequests :
        reqs[r].kind = "POST" =>
            /\ Len(reqs[r].symbols) <= 10
            /\ Len(reqs[r].calls) <= 10
            /\ \A k \in 2..Len(reqs[r].calls) :
                  reqs[r].calls[k].at - reqs[r].calls[k - 1].at >= 1100

\* Request r arrives as a GET in this step.
GetArrives(r) == reqs[r].kind = "none" /\ reqs'[r].kind = "GET"

\* The GET in slot r returns from its upstream call in this step.
GetReturns(r) ==
    reqs[r].kind = "GET" /\ reqs[r].pc = "fetch" /\ reqs'[r].pc = "done"

\* C27: the GET handler changes the cache only on a successful upstream
\* fetch.  Without a symbol it answers 400, with a fresh entry it answers 200
\* with the entry's data; in both cases, and while it waits for the
\* upstream, it starts no upstream call where none is needed and leaves the
\* cache as it is.  When the upstream fails it answers 500 and leaves the
\* cache as it is, an expired entry included; when the upstream succeeds it
\* sets the entry of its symbol, and nothing else, to the answered data.
C27_GetChangesCacheOnlyOnSuccess ==
    [][\A r \in 1..MaxRequests :
         /\ GetArrives(r) =>
               LET symbol == reqs'[r].symbols[1]
               IN /\ cache' = cache
                  /\ symbol = 0 =>
                        /\ reqs'[r].pc = "done"
                        /\ reqs'[r].status = 400
                        /\ reqs'[r].calls = <<>>
                  /\ (symbol # 0 /\ Fresh(symbol)) =>
                        /\ reqs'[r].pc = "done"
                        /\ reqs'[r].status = 200
                        /\ reqs'[r].results = <<cache[symbol].data>>
                        /\ reqs'[r].calls = <<>>
                  /\ (symbol # 0 /\ ~Fresh(symbol)) =>
                        /\ reqs'[r].pc = "fetch"
                        /\ reqs'[r].calls = <<Call(symbol)>>
         /\ GetReturns(r) =>
               LET symbol == reqs[r].symbols[1]
               IN /\ reqs'[r].status \in {200, 500}
                  /\ reqs'[r].calls = reqs[r].calls
                  /\ reqs'[r].status = 500 => cache' = cache
                  /\ reqs'[r].status = 200 =>
                        /\ DOMAIN cache' = DOMAIN cache \cup {symbol}
                        /\ \A s \in DOMAIN cache \ {symbol} :
                              cache'[s] = cache[s]
                        /\ cache'[symbol].timestamp = now
                        /\ reqs'[r].results = <<cache'[symbol].data>>]_vars

\* A GET found an expired entry, its upstream call failed, it answered 500,
\* and the expired entry is still in the cache; the GET before it had filled
\* the entry.
C27_Witness ==
    /\ reqs[1].kind = "GET"
    /\ reqs[1].status = 200
    /\ reqs[2].kind = "GET"
    /\ reqs[2].pc = "done"
    /\ reqs[2].status = 500
    /\ reqs[2].symbols = reqs[1].symbols
    /\ reqs[2].lookups # {}
    /\ reqs[1].symbols[1] \in DOMAIN cache
    /\ ~Fresh(reqs[1].symbols[1])
    /\ <<cache[reqs[1].symbols[1]].data>> = reqs[1].results

\* All upstream calls of the route, each with the request that made it.
AllCalls ==
    {[r |-> r, k |-> k, symbol |-> reqs[r].calls[k].symbol,
      at |-> reqs[r].calls[k].at] :
        <<r, k>> \in {rk \in (1..MaxRequests) \X (1..PostLimit) :
                         rk[2] <= Len(reqs[rk[1]].calls)}}

\* C28: two upstream calls of the route for the same symbol, whether of one
\* request or of overlapping ones, never start within one TTL window of
\* 60 seconds.
C28_OneCallPerSymbolPerWindow ==
    \A c, d \in AllCalls :
        (c # d /\ c.symbol = d.symbol) =>
            (c.at - d.at >= CACHE_TTL \/ d.at - c.at >= CACHE_TTL)

(***************************************************************************)
(* Recommendations: analyzeStock, generateAIAnalysis and                   *)
(* generateAIRecommendation with generateRuleBasedRecommendation           *)
(***************************************************************************)
\* Percent changes, in tenths of a percent: -6.0 %, ..., 0.5 %, ..., 6.0 %.
PercentChanges == {-60, -51, -50, -30, -21, -20, 0, 5, 20, 21, 50, 51, 60}

RiskProfiles == {"CONSERVATIVE", "MODERATE", "AGGRESSIVE"}

\* What the messages.create call of one analysis ends in: a text holding a
\* JSON object, a text without braces, a text whose braces JSON.parse
\* rejects, or a rejected promise.
LlmOutcomes == {"json", "nojson", "badjson", "apierror"}

Analysts == {"analyzeStock", "generateAIAnalysis", "generateAIRecommendation"}

Analysis(path, recommendation, confidence, riskLevel) ==
    [path |-> path, recommendation |-> recommendation,
     confidence |-> confidence, riskLevel |-> riskLevel]

\* The object the model's JSON parsed to.
Parsed == Analysis("llm", "LLM", 0, "LLM")

NoAnalysis == Analysis("none", "", 0, "")

Thrown == Analysis("throw", "", 0, "")

\* analyzeStock: the catch block of the messages.create call.
PriceMovementFallback(percentChange) ==
    IF percentChange > 50 THEN Analysis("rules", "SELL", 70, "HIGH")
    ELSE IF percentChange > 20 THEN Analysis("rules", "HOLD", 65, "MEDIUM")
    ELSE IF percentChange < -50 THEN Analysis("rules", "BUY", 70, "HIGH")
    ELSE IF percentChange < -20 THEN Analysis("rules", "HOLD", 60, "MEDIUM")
    ELSE Analysis("rules", "HOLD", 50, "MEDIUM")

analyzeStock(percentChange, llm) ==
    CASE llm = "json" -> Parsed
      [] llm \in {"nojson", "badjson"} ->
            Analysis("fixed", "HOLD", 60, "MEDIUM")
      [] OTHER -> PriceMovementFallback(percentChange)

generateAIAnalysis(llm) ==
    CASE llm = "json" -> Parsed
      [] llm \in {"nojson", "badjson"} ->
            Analysis("fixed", "HOLD", 50, "MEDIUM")
      [] OTHER -> Thrown

generateRuleBasedRecommendation(percentChange, riskProfile) ==
    LET base ==
            IF percentChange > 50 THEN Analysis("rules", "SELL", 65, "HIGH")
            ELSE IF percentChange > 20
                 THEN Analysis("rules", "HOLD", 60, "MEDIUM")
            ELSE IF percentChange < -50
                 THEN Analysis("rules", "BUY", 70, "HIGH")
            ELSE IF percentChange < -20
                 THEN Analysis("rules", "BUY", 65, "MEDIUM")
            ELSE Analysis("rules", "HOLD", 50, "MEDIUM")
    IN CASE riskProfile = "CONSERVATIVE" /\ base.recommendation = "BUY" ->
                [base EXCEPT !.recommendation = "HOLD"]
         [] riskProfile = "AGGRESSIVE" /\ base.recommendation = "BUY" ->
                [base EXCEPT !.recommendation = "STRONG_BUY"]
         [] riskProfile = "AGGRESSIVE" /\ base.recommendation = "SELL" ->
                [base EXCEPT !.recommendation = "HOLD"]
         [] OTHER -> base

generateAIRecommendation(percentChange, riskProfile, llm) ==
    IF llm = "json" THEN Parsed
    ELSE generateRuleBasedRecommendation(percentChange, riskProfile)

CallAnalyzeStock ==
    /\ recIn.fn = "analyzeStock"
    /\ recOut = NoAnalysis
    /\ recOut' = analyzeStock(recIn.percentChange, recIn.llm)
    /\ UNCHANGED <<recIn, notRec>>

CallGenerateAIAnalysis ==
    /\ recIn.fn = "generateAIAnalysis"
    /\ recOut = NoAnalysis
    /\ recOut' = generateAIAnalysis(recIn.llm)
    /\ UNCHANGED <<recIn, notRec>>

CallGenerateAIRecommendation ==
    /\ recIn.fn = "generateAIRecommendation"
    /\ recOut = NoAnalysis
    /\ recOut' = generateAIRecommendation(recIn.percentChange,
                                          recIn.riskProfile, recIn.llm)
    /\ UNCHANGED <<recIn, notRec>>

RecIdle ==
    /\ recIn = [fn |-> "none", percentChange |-> 0,
                riskProfile |-> "MODERATE", llm |-> "json"]
    /\ recOut = NoAnalysis

InitRec ==
    /\ recIn \in [fn : Analysts, percentChange : PercentChanges,
                  riskProfile : RiskProfiles, llm : LlmOutcomes]
    /\ recOut = NoAnalysis

NextRec ==
    \/ CallAnalyzeStock
    \/ CallGenerateAIAnalysis
    \/ CallGenerateAIRecommendation

(***************************************************************************)
(* Claims about the recommendations                                        *)
(***************************************************************************)
\* The documented thresholds: above +5 % SELL, below -5 % BUY, else HOLD.
Documented(percentChange) ==
    IF percentChange > 50 THEN "SELL"
    ELSE IF percentChange < -50 THEN "BUY"
    ELSE "HOLD"

\* C12: whenever a recommendation comes from the rule-based fallback, it is
\* SELL for a percent change above 5, BUY for one below -5 and HOLD for
\* every other percent change.
C12_FallbackFollowsThresholds ==
    recOut.path = "rules" =>
        recOut.recommendation = Documented(recIn.percentChange)

\* C13: when the model answered with a text that holds no parseable JSON,
\* the caller gets no error and the analysis is the one the thresholds give
\* for the percent change.
C13_UnparseableGivesRuleBased ==
    (recIn.llm \in {"nojson", "badjson"} /\ recOut # NoAnalysis) =>
        /\ recOut.path # "throw"
        /\ recOut.recommendation = Documented(recIn.percentChange)

(***************************************************************************)
(* Upsert of MarketData records: processBatch of the refresh job and the   *)
(* get-market-data handler                                                 *)
(***************************************************************************)
Writers == 1..MaxWriters

\* Who runs the get-then-write: a run of the job or a request of the handler.
WriterKinds == {"processBatch", "get-market-data"}

MarketSymbols == {1, 2}

\* const { data: existingData } = await client.models.MarketData.get({symbol})
MarketDataGet(w) ==
    /\ writers[w].pc = "get"
    /\ writers' = [writers EXCEPT ![w] =
          [@ EXCEPT !.pc = "write",
                    !.existingData = writers[w].symbol \in mdTable]]
    /\ UNCHANGED <<mdTable, notUps>>

\* if (existingData) update(marketData) else create(marketData); a create
\* of a key the table holds, or an update of one it lacks, is rejected.
MarketDataWrite(w) ==
    /\ writers[w].pc = "write"
    /\ LET symbol == writers[w].symbol
           op == IF writers[w].existingData THEN "update" ELSE "create"
           exists == symbol \in mdTable
       IN /\ writers' = [writers EXCEPT ![w] =
                [@ EXCEPT !.pc = "done", !.op = op, !.existed = exists,
                          !.accepted = (op = "update") <=> exists]]
          /\ mdTable' = IF op = "create" THEN mdTable \cup {symbol}
                        ELSE mdTable
    /\ UNCHANGED notUps

UpsIdle ==
    /\ mdTable = {}
    /\ writers = <<>>

InitUps ==
    /\ mdTable \in SUBSET MarketSymbols
    /\ writers \in [Writers ->
          [kind : WriterKinds, symbol : MarketSymbols, pc : {"get"},
           existingData : {FALSE}, op : {"none"}, existed : {FALSE},
           accepted : {FALSE}]]

NextUps == \E w \in Writers : MarketDataGet(w) \/ MarketDataWrite(w)

(***************************************************************************)
(* Claims about the upsert                                                 *)
(***************************************************************************)
\* C15: every write is a create exactly when the table holds no record of
\* the symbol at the time of the write and an update exactly when it holds
\* one, so no write is rejected, and afterwards the table holds a record of
\* the symbol.
C15_WriteMatchesStore ==
    \A w \in DOMAIN writers :
        writers[w].pc = "done" =>
            /\ writers[w].op = "create" <=> ~writers[w].existed
            /\ writers[w].accepted
            /\ writers[w].symbol \in mdTable

(***************************************************************************)
(* Timing of one queue message: visibility timeout of the queue against    *)
(* the timeout and the reserved concurrency of the worker function         *)
(***************************************************************************)
\* Seconds the clock advances by: the margin between the two timeouts.
TimeStep == VisibilityTimeout - WorkerTimeout

\* The deliveries of the message that hold a worker invocation right now.
Running == {d \in DOMAIN deliveries : deliveries[d].state = "running"}

\* The poller takes the message: it becomes invisible for VisibilityTimeout
\* seconds from now on, and the poller sets out to invoke the worker.
Receive ==
    /\ vmsg.state = "visible"
    /\ vmsg.receiveCount < MaxReceiveCount
    /\ vmsg' = [state |-> "inflight", receivedAt |-> vclock,
                receiveCount |-> vmsg.receiveCount + 1]
    /\ deliveries' = Append(deliveries,
                            [state |-> "waiting", startedAt |-> 0])
    /\ UNCHANGED <<vclock, busy, notVis>>

\* The invocation starts as soon as the function has a free execution
\* (reservedConcurrentExecutions); until then the poller retries.
Invoke(d) ==
    /\ deliveries[d].state = "waiting"
    /\ busy + Cardinality(Running) < ReservedConcurrency
    /\ deliveries' = [deliveries EXCEPT ![d] =
                        [state |-> "running", startedAt |-> vclock]]
    /\ UNCHANGED <<vclock, vmsg, busy, notVis>>

\* The handler returns.  With the record in batchItemFailures (a step of
\* processUserAnalysis threw) the message stays invisible until its timeout;
\* without it every step has completed, the email send included, and the
\* message is deleted.
Return(d) ==
    /\ deliveries[d].state = "running"
    /\ \E failed \in BOOLEAN :
          /\ vmsg' = IF failed \/ vmsg.state = "deleted" THEN vmsg
                     ELSE [vmsg EXCEPT !.state = "deleted"]
          /\ deliveries' = [deliveries EXCEPT ![d].state =
                               IF failed THEN "failed" ELSE "succeeded"]
    /\ UNCHANGED <<vclock, busy, notVis>>

\* The invocation has run for timeoutSeconds and is stopped.
FunctionTimeout(d) ==
    /\ deliveries[d].state = "running"
    /\ vclock - deliveries[d].startedAt >= WorkerTimeout
    /\ deliveries' = [deliveries EXCEPT ![d].state = "stopped"]
    /\ UNCHANGED <<vclock, vmsg, busy, notVis>>

\* The visibility timeout of the last receive has passed.
VisibilityExpires ==
    /\ vmsg.state = "inflight"
    /\ vclock - vmsg.receivedAt >= VisibilityTimeout
    /\ vmsg' = [vmsg EXCEPT !.state = "visible"]
    /\ UNCHANGED <<vclock, deliveries, busy, notVis>>

\* Invocations for the tasks of other users start and end.
OtherTasks(n) ==
    /\ n # busy
    /\ n + Cardinality(Running) <= ReservedConcurrency
    /\ busy' = n
    /\ UNCHANGED <<vclock, vmsg, deliveries, notVis>>

\* Time passes, but not beyond the moment a timeout is due, and not while
\* an invocation that the function has room for is still to start.
Pass ==
    /\ vclock < MaxClock
    /\ \A d \in DOMAIN deliveries :
          deliveries[d].state = "waiting" =>
              busy + Cardinality(Running) >= ReservedConcurrency
    /\ \A d \in Running :
          vclock + TimeStep - deliveries[d].startedAt <= WorkerTimeout
    /\ vmsg.state = "inflight" =>
          vclock + TimeStep - vmsg.receivedAt <= VisibilityTimeout
    /\ vclock' = vclock + TimeStep
    /\ UNCHANGED <<vmsg, deliveries, busy, notVis>>

VisIdle ==
    /\ vclock = 0
    /\ vmsg = [state |-> "visible", receivedAt |-> 0, receiveCount |-> 0]
    /\ deliveries = <<>>
    /\ busy = 0

InitVis == VisIdle

NextVis ==
    \/ Receive
    \/ \E d \in DOMAIN deliveries : Invoke(d)
    \/ \E d \in DOMAIN deliveries : Return(d)
    \/ \E d \in DOMAIN deliveries : FunctionTimeout(d)
    \/ VisibilityExpires
    \/ \E n \in {0, ReservedConcurrency} : OtherTasks(n)
    \/ Pass

(***************************************************************************)
(* Claims about the timing of a message                                    *)
(***************************************************************************)
\* C18: at no time do two worker invocations process the same message.
C18_NeverTwoWorkersOnOneMessage == Cardinality(Running) <= 1

\* The deliveries of the message whose run completed, email included.
EmailsSent ==
    {d \in DOMAIN deliveries : deliveries[d].state = "succeeded"}

\* C30: over all deliveries of one task, at most one run of the worker
\* completes its email send.
C30_AtMostOneEmailPerTask == Cardinality(EmailsSent) <= 1

(***************************************************************************)
(* Quote records of the refresh job: the three fetchStockPrice variants    *)
(***************************************************************************)
\* A percentage kept as an exact fraction num / den.
Pct(num, den) == [num |-> num, den |-> den]

QuoteRecord(price, previousClose, change, changePercent) ==
    [price |-> price, previousClose |-> previousClose, change |-> change,
     changePercent |-> changePercent]

NoQuote == QuoteRecord(0, 0, 0, Pct(0, 1))

\* What a request meets: the upstream's current price and previous close
\* when it answers, and the values Math.random() yields when it does not.
PriceInputs ==
    [resp : {"quote", "failed"}, price : {100, 105, 200},
     previousClose : {100, 200}, change : {-4, 0, 4}, pct : {-2, 0, 2}]

\* getMockStockPrice: basePrice and change are random, the rest follows.
getMockStockPrice(basePrice, change) ==
    QuoteRecord(basePrice, basePrice - change, change,
                Pct(change * 100, basePrice))

\* The mock object built in place: four independent random numbers.
RandomQuote(in) ==
    QuoteRecord(in.price, in.previousClose, in.change, Pct(in.pct, 1))

\* The body of a Finnhub quote: d = c - pc and dp = d / pc * 100 are
\* computed by Finnhub and copied field by field.
FinnhubQuote(in) ==
    QuoteRecord(in.price, in.previousClose, in.price - in.previousClose,
                Pct((in.price - in.previousClose) * 100, in.previousClose))

\* fetchStockPrice of the Amplify client variant (part_011, lines 26-62)
fetchStockPriceAmplify(in) ==
    IF in.resp = "quote" THEN FinnhubQuote(in)
    ELSE getMockStockPrice(in.price, in.change)

\* fetchStockPrice of the DynamoDB variant (part_011, lines 210-256)
fetchStockPriceFinnhub(in) ==
    IF in.resp = "quote" THEN FinnhubQuote(in) ELSE RandomQuote(in)

\* fetchStockPrice of the Yahoo variant (part_010): change and changePercent
\* are computed from regularMarketPrice and previousClose.
fetchStockPriceYahoo(in) ==
    IF in.resp = "quote"
    THEN QuoteRecord(in.price, in.previousClose,
                     in.price - in.previousClose,
                     Pct((in.price - in.previousClose) * 100,
                         in.previousClose))
    ELSE RandomQuote(in)

FetchAmplify ==
    /\ priceOut = NoQuote
    /\ priceOut' = fetchStockPriceAmplify(priceIn)
    /\ variant' = "amplify"
    /\ UNCHANGED <<priceIn, notPrice>>

FetchFinnhub ==
    /\ priceOut = NoQuote
    /\ priceOut' = fetchStockPriceFinnhub(priceIn)
    /\ variant' = "finnhub"
    /\ UNCHANGED <<priceIn, notPrice>>

FetchYahoo ==
    /\ priceOut = NoQuote
    /\ priceOut' = fetchStockPriceYahoo(priceIn)
    /\ variant' = "yahoo"
    /\ UNCHANGED <<priceIn, notPrice>>

PriceIdle ==
    /\ priceIn = [resp |-> "quote", price |-> 100, previousClose |-> 100,
                  change |-> 0, pct |-> 0]
    /\ priceOut = NoQuote
    /\ variant = "none"

InitPrice ==
    /\ priceIn \in PriceInputs
    /\ priceOut = NoQuote
    /\ variant = "none"

NextPrice == FetchAmplify \/ FetchFinnhub \/ FetchYahoo

(***************************************************************************)
(* Claims about the quote records                                          *)
(***************************************************************************)
\* C20: every quote record a fetchStockPrice variant returns has
\* change = price - previousClose and
\* changePercent = change / previousClose * 100, on the upstream path and on
\* the mock path alike.
C20_ChangeFieldsConsistent ==
    variant # "none" =>
        /\ priceOut.change = priceOut.price - priceOut.previousClose
        /\ priceOut.changePercent.num * priceOut.previousClose
              = priceOut.change * 100 * priceOut.changePercent.den

(***************************************************************************)
(* Top gainer and top loser of the AnalysisHistory record                  *)
(***************************************************************************)
\* A JavaScript number: a value, or NaN.
Num(v) == [nan |-> FALSE, val |-> v]

NaN == [nan |-> TRUE, val |-> 0]

\* item.name of a stored item: undefined, which arithmetic turns into NaN,
\* when the item has no such attribute.
Attr(item, name) == IF name \in DOMAIN item THEN Num(item[name]) ELSE NaN

\* a > b and a < b: false as soon as one side is NaN
Gt(a, b) == ~a.nan /\ ~b.nan /\ a.val > b.val

Lt(a, b) == ~a.nan /\ ~b.nan /\ a.val < b.val

\* ((currentPrice - previousClose) / previousClose) * 100, rounded down
PercentOf(currentPrice, previousClose) ==
    IF currentPrice.nan \/ previousClose.nan \/ previousClose.val = 0
    THEN NaN
    ELSE Num(((currentPrice.val - previousClose.val) * 100)
                \div previousClose.val)

\* A MarketData item as the refresh job writes it (part_011:278-297): the
\* previous close is stored under closePrice, prices are in cents.
MarketDataItem(symbol, changePct) ==
    [symbol |-> symbol, currentPrice |-> 10000 + 100 * changePct,
     closePrice |-> 10000, percentChange24h |-> changePct]

TopSymbols == {1, 2, 3}

\* The lists of resolved quotes: one to three items of distinct symbols, in
\* any order, with any percent changes.
QuoteLists ==
    {[i \in DOMAIN syms |-> MarketDataItem(syms[i], pcts[i])] :
        <<syms, pcts>> \in
            UNION {{sp \in [1..n -> TopSymbols] \X [1..n -> ChangeVals] :
                       \A i, j \in 1..n : i # j => sp[1][i] # sp[1][j]} :
                   n \in 1..Cardinality(TopSymbols)}}

\* fetchStockData (part_018): the StockData built from every item
StockDataOf(items) ==
    [i \in DOMAIN items |->
        [symbol |-> items[i].symbol,
         changePercent |-> PercentOf(Attr(items[i], "currentPrice"),
                                     Attr(items[i], "previousClose"))]]

\* stockData.reduce((prev, current) =>
\*     prev.changePercent > current.changePercent ? prev : current)
RECURSIVE ReduceGainer(_, _)
ReduceGainer(prev, rest) ==
    IF rest = <<>> THEN prev
    ELSE ReduceGainer(IF Gt(prev.changePercent, Head(rest).changePercent)
                      THEN prev ELSE Head(rest), Tail(rest))

\* stockData.reduce((prev, current) =>
\*     prev.changePercent < current.changePercent ? prev : current)
RECURSIVE ReduceLoser(_, _)
ReduceLoser(prev, rest) ==
    IF rest = <<>> THEN prev
    ELSE ReduceLoser(IF Lt(prev.changePercent, Head(rest).changePercent)
                     THEN prev ELSE Head(rest), Tail(rest))

\* saveAnalysisHistory (part_018): the item put into the history table
HistoryItemSes(items) ==
    LET stockData == StockDataOf(items)
    IN [handler |-> "ses",
        topGainer |-> ReduceGainer(Head(stockData), Tail(stockData)).symbol,
        topLoser |-> ReduceLoser(Head(stockData), Tail(stockData)).symbol]

\* processUserAnalysis (part_017): AnalysisHistory.create with the first
\* and the last of the valid items
HistoryItemAmplify(items) ==
    [handler |-> "amplify",
     topGainer |-> items[1].symbol,
     topLoser |-> items[Len(items)].symbol]

NoHistoryItem == [handler |-> "none", topGainer |-> 0, topLoser |-> 0]

SaveHistorySes ==
    /\ topOut = NoHistoryItem
    /\ topOut' = HistoryItemSes(topIn)
    /\ UNCHANGED <<topIn, notTop>>

CreateHistoryAmplify ==
    /\ topOut = NoHistoryItem
    /\ topOut' = HistoryItemAmplify(topIn)
    /\ UNCHANGED <<topIn, notTop>>

TopIdle ==
    /\ topIn = <<>>
    /\ topOut = NoHistoryItem

InitTop ==
    /\ topIn \in QuoteLists
    /\ topOut = NoHistoryItem

NextTop == SaveHistorySes \/ CreateHistoryAmplify

(***************************************************************************)
(* Claims about the top gainer and the top loser                           *)
(***************************************************************************)
\* The stored percent change of the symbol in the list of resolved quotes.
ChangePctOf(symbol) ==
    LET i == CHOOSE j \in DOMAIN topIn : topIn[j].symbol = symbol
    IN topIn[i].percentChange24h

\* C23: the top gainer of the history record the worker writes is a symbol
\* of maximum percent change among the resolved quotes and the top loser a
\* symbol of minimum percent change, in whichever order the quotes came.
C23_TopGainerAndLoser ==
    topOut # NoHistoryItem =>
        \A i \in DOMAIN topIn :
            /\ ChangePctOf(topOut.topGainer) >= topIn[i].percentChange24h
            /\ ChangePctOf(topOut.topLoser) <= topIn[i].percentChange24h

(***************************************************************************)
(* Market status of the summary record: getMarketStatus                    *)
(***************************************************************************)
Days == 0..6           \* getDay(): 0 is Sunday, 6 is Saturday
Hours == 0..23         \* getHours()
Minutes == 0..59       \* getMinutes()

\* A market that still counts as open at the minute it closes.
getMarketStatusClosingLate(day, hours, minutes) ==
    LET currentTime == hours * 60 + minutes
        openTime == 9 * 60 + 30
        closeTime == 16 * 60
    IN IF day = 0 \/ day = 6 THEN "CLOSED"
       ELSE IF currentTime >= openTime /\ currentTime <= closeTime
            THEN "OPEN"
       ELSE IF currentTime >= openTime - 60 /\ currentTime < openTime
            THEN "PRE_MARKET"
       ELSE IF currentTime >= closeTime /\ currentTime < closeTime + 120
            THEN "AFTER_HOURS"
       ELSE "CLOSED"

\* getMarketStatus, from the day, hours and minutes of the Eastern time
getMarketStatus(day, hours, minutes) ==
    LET currentTime == hours * 60 + minutes
        openTime == 9 * 60 + 30
        closeTime == 16 * 60
    IN IF day = 0 \/ day = 6 THEN "CLOSED"
       ELSE IF currentTime >= openTime /\ currentTime < closeTime
            THEN "OPEN"
       ELSE IF currentTime >= openTime - 60 /\ currentTime < openTime
            THEN "PRE_MARKET"
       ELSE IF currentTime >= closeTime /\ currentTime < closeTime + 120
            THEN "AFTER_HOURS"
       ELSE "CLOSED"

CallGetMarketStatus ==
    /\ statusOut = "none"
    /\ statusOut' = getMarketStatus(statusIn.day, statusIn.hours,
                                    statusIn.minutes)
    /\ UNCHANGED <<statusIn, notStatus>>

StatusIdle ==
    /\ statusIn = [day |-> 0, hours |-> 0, minutes |-> 0]
    /\ statusOut = "none"

InitStatus ==
    /\ statusIn \in [day : Days, hours : Hours, minutes : Minutes]
    /\ statusOut = "none"

NextStatus == CallGetMarketStatus

(***************************************************************************)
(* Claims about the market status                                          *)
(***************************************************************************)
\* The minute of the day the status was asked at.
MinuteOfDay == statusIn.hours * 60 + statusIn.minutes

Weekend == statusIn.day \in {0, 6}

\* C26: getMarketStatus gives every day of the week and minute of the day
\* (Eastern time) exactly the status of the table: CLOSED on Saturday and
\* Sunday; on weekdays OPEN from 09:30 to before 16:00, PRE_MARKET from
\* 08:30 to before 09:30, AFTER_HOURS from 16:00 to before 18:00, and
\* CLOSED at every other minute.
C26_MarketStatusTable ==
    statusOut # "none" =>
        /\ statusOut \in {"OPEN", "PRE_MARKET", "AFTER_HOURS", "CLOSED"}
        /\ statusOut = "OPEN" <=>
              ~Weekend /\ MinuteOfDay >= 570 /\ MinuteOfDay < 960
        /\ statusOut = "PRE_MARKET" <=>
              ~Weekend /\ MinuteOfDay >= 510 /\ MinuteOfDay < 570
        /\ statusOut = "AFTER_HOURS" <=>
              ~Weekend /\ MinuteOfDay >= 960 /\ MinuteOfDay < 1080
        /\ statusOut = "CLOSED" <=>
              \/ Weekend
              \/ MinuteOfDay < 510
              \/ MinuteOfDay >= 1080

\* A Friday at 16:00 sharp was answered with AFTER_HOURS.
C26_Witness ==
    /\ statusIn = [day |-> 5, hours |-> 16, minutes |-> 0]
    /\ statusOut = "AFTER_HOURS"

(***************************************************************************)
(* Specifications                                                          *)
(***************************************************************************)
JobQuiet ==
    /\ symbols = <<>>
    /\ net = "up"
    /\ market = <<>>
    /\ latency = 0
    /\ outcome = <<>>
    /\ JobStart

JobIdle == JobQuiet /\ store = {}

OrchIdle ==
    /\ prefs = <<>>
    /\ OrchStart

ExtIdle ==
    QuoteStart /\ RecIdle /\ UpsIdle /\ VisIdle /\ PriceIdle /\ TopIdle
    /\ StatusIdle

InitSpecJob == InitJob /\ OrchIdle /\ WorkIdle /\ ExtIdle

SpecJob == InitSpecJob /\ [][NextJob]_vars

InitSpecRun == InitRun /\ OrchIdle /\ WorkIdle /\ ExtIdle

SpecRun == InitSpecRun /\ [][NextRun]_vars

InitSpecOrch == InitOrch /\ JobIdle /\ WorkIdle /\ ExtIdle

SpecOrch == InitSpecOrch /\ [][NextOrch]_vars

InitSpecWork == InitWork /\ JobQuiet /\ OrchIdle /\ ExtIdle

SpecWork == InitSpecWork /\ [][NextWork]_vars

CoreIdle == JobIdle /\ OrchIdle /\ WorkIdle

InitSpecQuote ==
    InitQuote /\ CoreIdle /\ RecIdle /\ UpsIdle /\ VisIdle /\ PriceIdle
    /\ TopIdle
    /\ StatusIdle

SpecQuote == InitSpecQuote /\ [][NextQuote]_vars

InitSpecRec ==
    InitRec /\ CoreIdle /\ QuoteStart /\ UpsIdle /\ VisIdle /\ PriceIdle
    /\ TopIdle
    /\ StatusIdle

SpecRec == InitSpecRec /\ [][NextRec]_vars

InitSpecUps ==
    InitUps /\ CoreIdle /\ QuoteStart /\ RecIdle /\ VisIdle /\ PriceIdle
    /\ TopIdle
    /\ StatusIdle

SpecUps == InitSpecUps /\ [][NextUps]_vars

InitSpecVis ==
    InitVis /\ CoreIdle /\ QuoteStart /\ RecIdle /\ UpsIdle /\ PriceIdle
    /\ TopIdle
    /\ StatusIdle

SpecVis == InitSpecVis /\ [][NextVis]_vars

InitSpecPrice ==
    InitPrice /\ CoreIdle /\ QuoteStart /\ RecIdle /\ UpsIdle /\ VisIdle
    /\ TopIdle
    /\ StatusIdle

SpecPrice == InitSpecPrice /\ [][NextPrice]_vars

InitSpecTop ==
    InitTop /\ CoreIdle /\ QuoteStart /\ RecIdle /\ UpsIdle /\ VisIdle
    /\ PriceIdle
    /\ StatusIdle

SpecTop == InitSpecTop /\ [][NextTop]_vars

InitSpecStatus ==
    InitStatus /\ CoreIdle /\ QuoteStart /\ RecIdle /\ UpsIdle /\ VisIdle
    /\ PriceIdle /\ TopIdle

SpecStatus == InitSpecStatus /\ [][NextStatus]_vars

\* Workers keep being scheduled: whatever can happen next eventually does.
SpecWorkFair == SpecWork /\ WF_vars(NextWork)

====
